---- MODULE Spec2Model ----
(***************************************************************************)
(* The Math Notation Normalization Engine of MessageCard.tsx:              *)
(*   normalize(t) = preprocessMath(normalizeMathSyntax(t)).                *)
(* A text is a sequence of one-character strings.  Offsets (start, end,    *)
(* lastIndex) are 0-based as in the source; Substring and CharAt convert.  *)
(***************************************************************************)
EXTENDS Integers, Sequences, FiniteSets, TLC

VARIABLES raw, pass, pc, text, normalized, processed, protectedMath, allMatches, prev

vars == <<raw, pass, pc, text, normalized, processed, protectedMath, allMatches, prev>>

\* ------------------------------------------------------------------ bounds
\* Longest text enumerated character by character over Alphabet.
MaxLen == 4

\* ------------------------------------------------------- character classes
BS == "\\"
DOLLAR == "$"
NL == "\n"

\* [a-zA-Z]
Letters ==
    {"a", "b", "c", "d", "e", "f", "g", "h", "i", "j", "k", "l", "m",
     "n", "o", "p", "q", "r", "s", "t", "u", "v", "w", "x", "y", "z",
     "A", "B", "C", "D", "E", "F", "G", "H", "I", "J", "K", "L", "M",
     "N", "O", "P", "Q", "R", "S", "T", "U", "V", "W", "X", "Y", "Z"}

\* \d
Digits == {"0", "1", "2", "3", "4", "5", "6", "7", "8", "9"}

\* \s (the white space characters a text of the model can hold)
Whitespace == {" ", "\n", "\t", "\r", "\f"}

\* \w
WordChars == Letters \cup Digits \cup {"_"}

\* --------------------------------------------------------- string helpers
Min(a, b) == IF a < b THEN a ELSE b
Max(a, b) == IF a > b THEN a ELSE b

\* String.prototype.substring(a, b): both ends clamped to [0, length].
Substring(s, a, b) ==
    LET lo == Min(Max(Min(a, b), 0), Len(s))
        hi == Min(Max(Max(a, b), 0), Len(s))
    IN  SubSeq(s, lo + 1, hi)

\* String.prototype.substring(a)
SubstringFrom(s, a) == Substring(s, a, Len(s))

\* s[i] for a 0-based i inside the string
CharAt(s, i) == s[i + 1]

\* s.startsWith(p) at 0-based offset i
StartsWithAt(s, p, i) ==
    /\ i + Len(p) <= Len(s)
    /\ \A k \in 1..Len(p) : s[i + k] = p[k]

\* String.prototype.includes
Includes(s, p) == \E i \in 0..(Len(s) - Len(p)) : StartsWithAt(s, p, i)

\* String.prototype.indexOf: 0-based offset of the first occurrence, or -1
IndexOf(s, p) ==
    IF Includes(s, p)
    THEN CHOOSE i \in 0..(Len(s) - Len(p)) :
            /\ StartsWithAt(s, p, i)
            /\ \A j \in 0..(i - 1) : ~StartsWithAt(s, p, j)
    ELSE -1

\* String.prototype.endsWith / startsWith with a one-character argument
EndsWithChar(s, c) == Len(s) > 0 /\ s[Len(s)] = c
StartsWithChar(s, c) == Len(s) > 0 /\ s[1] = c

\* String.prototype.trim
RECURSIVE TrimStart(_)
TrimStart(s) ==
    IF Len(s) > 0 /\ s[1] \in Whitespace THEN TrimStart(Tail(s)) ELSE s

RECURSIVE TrimEnd(_)
TrimEnd(s) ==
    IF Len(s) > 0 /\ s[Len(s)] \in Whitespace
    THEN TrimEnd(SubSeq(s, 1, Len(s) - 1))
    ELSE s

Trim(s) == TrimEnd(TrimStart(s))

\* The number of "$" in s: (s.match(/\$/g) || []).length
RECURSIVE CountDollars(_)
CountDollars(s) ==
    IF Len(s) = 0 THEN 0
    ELSE (IF s[1] = DOLLAR THEN 1 ELSE 0) + CountDollars(Tail(s))

\* Decimal digits of a natural number, as template literals print it
DigitChar(d) ==
    CASE d = 0 -> "0" [] d = 1 -> "1" [] d = 2 -> "2" [] d = 3 -> "3"
      [] d = 4 -> "4" [] d = 5 -> "5" [] d = 6 -> "6" [] d = 7 -> "7"
      [] d = 8 -> "8" [] d = 9 -> "9"

RECURSIVE ToDecimal(_)
ToDecimal(n) ==
    IF n < 10 THEN <<DigitChar(n)>>
    ELSE ToDecimal(n \div 10) \o <<DigitChar(n % 10)>>

DigitValue(c) ==
    CASE c = "0" -> 0 [] c = "1" -> 1 [] c = "2" -> 2 [] c = "3" -> 3
      [] c = "4" -> 4 [] c = "5" -> 5 [] c = "6" -> 6 [] c = "7" -> 7
      [] c = "8" -> 8 [] c = "9" -> 9

\* ------------------------------------------------- replacement templates
\* GetSubstitution of String.prototype.replace: the meaning of "$" in a
\* replacement string.  matched is the matched text, pre and post the text
\* before and after the match, caps the capture groups.  "$$" is a dollar,
\* "$&" the match, "$'" the text after it, "$n" and "$nn" a capture group
\* that exists; any other "$" stands for itself.  ("$" followed by a grave
\* accent, the text before the match, is left out: a string of this
\* language cannot hold that character, so no text of the model has it.)
RECURSIVE GetSubstitution(_, _, _, _, _)
GetSubstitution(tpl, matched, pre, post, caps) ==
    IF Len(tpl) = 0 THEN <<>>
    ELSE IF tpl[1] = DOLLAR /\ Len(tpl) >= 2 THEN
        LET c == tpl[2]
            rest2 == GetSubstitution(SubSeq(tpl, 3, Len(tpl)), matched, pre, post, caps)
            rest3 == GetSubstitution(SubSeq(tpl, 4, Len(tpl)), matched, pre, post, caps)
            two == IF Len(tpl) >= 3 /\ c \in Digits /\ tpl[3] \in Digits
                   THEN 10 * DigitValue(c) + DigitValue(tpl[3])
                   ELSE 0
        IN  CASE c = DOLLAR -> <<DOLLAR>> \o rest2
              [] c = "&" -> matched \o rest2
              [] c = "'" -> post \o rest2
              [] c \in Digits /\ two >= 1 /\ two <= Len(caps) -> caps[two] \o rest3
              [] c \in Digits /\ ~(two >= 1 /\ two <= Len(caps))
                    /\ DigitValue(c) >= 1 /\ DigitValue(c) <= Len(caps) ->
                        caps[DigitValue(c)] \o rest2
              [] OTHER ->
                    <<DOLLAR>> \o GetSubstitution(Tail(tpl), matched, pre, post, caps)
    ELSE <<tpl[1]>> \o GetSubstitution(Tail(tpl), matched, pre, post, caps)

\* ------------------------------------------------------ normalizeMathSyntax
\* CollapseBackslashes for .replace(/\\\\/, "\\"), the g flag forgotten: only
\* the first pair of backslashes becomes one.
RECURSIVE CollapseFirstPairOnly(_)
CollapseFirstPairOnly(s) ==
    IF Len(s) = 0 THEN <<>>
    ELSE IF Len(s) >= 2 /\ s[1] = BS /\ s[2] = BS
         THEN <<BS>> \o SubSeq(s, 3, Len(s))
         ELSE <<s[1]>> \o CollapseFirstPairOnly(Tail(s))

\* .replace(/\\\\/g, "\\"): every non-overlapping pair of backslashes, left
\* to right, becomes one backslash.
RECURSIVE CollapseBackslashes(_)
CollapseBackslashes(s) ==
    IF Len(s) = 0 THEN <<>>
    ELSE IF Len(s) >= 2 /\ s[1] = BS /\ s[2] = BS
         THEN <<BS>> \o CollapseBackslashes(SubSeq(s, 3, Len(s)))
         ELSE <<s[1]>> \o CollapseBackslashes(Tail(s))

\* The replacement strings of the two delimiter conversions, '$$$1$' and
\* '$$$1$$', as written in the source.
InlineTemplate == <<"$", "$", "$", "1", "$">>
BlockTemplate == <<"$", "$", "$", "1", "$", "$">>

\* 0-based offset of the first "\" close at or after offset from, or -1
RECURSIVE FindClose(_, _, _)
FindClose(s, close, from) ==
    IF from + 2 > Len(s) THEN -1
    ELSE IF CharAt(s, from) = BS /\ CharAt(s, from + 1) = close THEN from
    ELSE FindClose(s, close, from + 1)

\* .replace(/\\<open>(.*?)\\<close>/gs, tpl): leftmost "\" open, lazily up to
\* the first "\" close after it (the s flag lets . cross newlines); matches
\* do not overlap.  done is the text before offset i, already rewritten.
RECURSIVE ConvertDelimiters(_, _, _, _, _, _)
ConvertDelimiters(s, open, close, tpl, i, done) ==
    IF i >= Len(s) THEN done
    ELSE IF CharAt(s, i) = BS /\ i + 1 < Len(s) /\ CharAt(s, i + 1) = open
              /\ FindClose(s, close, i + 2) >= 0
         THEN LET j == FindClose(s, close, i + 2)
                  matched == Substring(s, i, j + 2)
                  group == Substring(s, i + 2, j)
                  repl == GetSubstitution(tpl, matched, Substring(s, 0, i),
                                          SubstringFrom(s, j + 2), <<group>>)
              IN  ConvertDelimiters(s, open, close, tpl, j + 2, done \o repl)
         ELSE ConvertDelimiters(s, open, close, tpl, i + 1, done \o <<CharAt(s, i)>>)

\* .replace(/\\\s/g, ''): every backslash directly followed by white space
\* is removed together with that white space character.
RECURSIVE RemoveBackslashSpace(_)
RemoveBackslashSpace(s) ==
    IF Len(s) = 0 THEN <<>>
    ELSE IF Len(s) >= 2 /\ s[1] = BS /\ s[2] \in Whitespace
         THEN RemoveBackslashSpace(SubSeq(s, 3, Len(s)))
         ELSE <<s[1]>> \o RemoveBackslashSpace(Tail(s))

normalizeMathSyntax(t) ==
    IF Len(t) = 0 THEN t
    ELSE RemoveBackslashSpace(
            ConvertDelimiters(
                ConvertDelimiters(CollapseBackslashes(t), "(", ")", InlineTemplate, 0, <<>>),
                "[", "]", BlockTemplate, 0, <<>>))

\* ----------------------------------------------------------- preprocessMath
mathCommands == {
    <<"\\", "i", "n", "t">>, <<"\\", "s", "u", "m">>, <<"\\", "p", "r", "o", "d">>,
    <<"\\", "l", "i", "m">>, <<"\\", "s", "i", "n">>, <<"\\", "c", "o", "s">>,
    <<"\\", "t", "a", "n">>, <<"\\", "s", "e", "c">>, <<"\\", "c", "s", "c">>,
    <<"\\", "c", "o", "t">>, <<"\\", "l", "o", "g">>, <<"\\", "l", "n">>,
    <<"\\", "e", "x", "p">>, <<"\\", "s", "q", "r", "t">>, <<"\\", "f", "r", "a", "c">>,
    <<"\\", "p", "a", "r", "t", "i", "a", "l">>, <<"\\", "n", "a", "b", "l", "a">>,
    <<"\\", "i", "n", "f", "t", "y">>, <<"\\", "a", "l", "p", "h", "a">>,
    <<"\\", "b", "e", "t", "a">>, <<"\\", "g", "a", "m", "m", "a">>,
    <<"\\", "d", "e", "l", "t", "a">>, <<"\\", "e", "p", "s", "i", "l", "o", "n">>,
    <<"\\", "z", "e", "t", "a">>, <<"\\", "e", "t", "a">>, <<"\\", "t", "h", "e", "t", "a">>,
    <<"\\", "i", "o", "t", "a">>, <<"\\", "k", "a", "p", "p", "a">>,
    <<"\\", "l", "a", "m", "b", "d", "a">>, <<"\\", "m", "u">>, <<"\\", "n", "u">>,
    <<"\\", "x", "i">>, <<"\\", "p", "i">>, <<"\\", "r", "h", "o">>,
    <<"\\", "s", "i", "g", "m", "a">>, <<"\\", "t", "a", "u">>,
    <<"\\", "u", "p", "s", "i", "l", "o", "n">>, <<"\\", "p", "h", "i">>,
    <<"\\", "c", "h", "i">>, <<"\\", "p", "s", "i">>, <<"\\", "o", "m", "e", "g", "a">>,
    <<"\\", "G", "a", "m", "m", "a">>, <<"\\", "D", "e", "l", "t", "a">>,
    <<"\\", "T", "h", "e", "t", "a">>, <<"\\", "L", "a", "m", "b", "d", "a">>,
    <<"\\", "X", "i">>, <<"\\", "P", "i">>, <<"\\", "S", "i", "g", "m", "a">>,
    <<"\\", "P", "h", "i">>, <<"\\", "P", "s", "i">>, <<"\\", "O", "m", "e", "g", "a">>,
    <<"\\", "c", "d", "o", "t">>, <<"\\", "t", "i", "m", "e", "s">>, <<"\\", "d", "i", "v">>,
    <<"\\", "p", "m">>, <<"\\", "m", "p">>, <<"\\", "l", "e", "q">>, <<"\\", "g", "e", "q">>,
    <<"\\", "n", "e", "q">>, <<"\\", "a", "p", "p", "r", "o", "x">>,
    <<"\\", "e", "q", "u", "i", "v">>, <<"\\", "d">>, <<"\\", ",">>, <<"\\", ":">>,
    <<"\\", ";">>, <<"\\", "!">>, <<"\\", "q", "u", "a", "d">>,
    <<"\\", "q", "q", "u", "a", "d">>, <<"\\", "l", "e", "f", "t">>,
    <<"\\", "r", "i", "g", "h", "t">>
    }

\* hasLatex with every command written '\d' for '\\d': in a string literal
\* of the source that is the name without its backslash.
hasLatexUnescaped(s) == \E cmd \in mathCommands : Includes(s, Tail(cmd))

\* the gate opened by any command token at all, recognized or not
hasLatexAnyCommand(s) ==
    \E i \in 1..(Len(s) - 1) : s[i] = BS /\ s[i + 1] \in Letters

\* mathCommands.some(cmd => s.includes(cmd))
hasLatex(s) == \E cmd \in mathCommands : Includes(s, cmd)

\* The template literals __MATH_PROTECT_${n}__ and __MATH_BLOCK_${n}__
ProtectPrefix ==
    <<"_", "_", "M", "A", "T", "H", "_", "P", "R", "O", "T", "E", "C", "T", "_">>
BlockPrefix == <<"_", "_", "M", "A", "T", "H", "_", "B", "L", "O", "C", "K", "_">>
InlinePlaceholder(n) == ProtectPrefix \o ToDecimal(n) \o <<"_", "_">>
BlockPlaceholder(n) == BlockPrefix \o ToDecimal(n) \o <<"_", "_">>

\* 0-based offset of the first character of s at or after from that is in
\* the set stop, or -1
RECURSIVE FirstOf(_, _, _)
FirstOf(s, stop, from) ==
    IF from >= Len(s) THEN -1
    ELSE IF CharAt(s, from) \in stop THEN from
    ELSE FirstOf(s, stop, from + 1)

\* STEP 1, first replace: /\$([^$\n]+)\$/g with the callback that records
\* the match and returns __MATH_PROTECT_${protectedMath.length}__.
RECURSIVE ProtectInline(_, _, _, _)
ProtectInline(s, i, done, prot) ==
    IF i >= Len(s) THEN [text |-> done, prot |-> prot]
    ELSE LET j == FirstOf(s, {DOLLAR, NL}, i + 1)
         IN  IF CharAt(s, i) = DOLLAR /\ j >= i + 2 /\ CharAt(s, j) = DOLLAR
             THEN LET placeholder == InlinePlaceholder(Len(prot))
                      match == Substring(s, i, j + 1)
                  IN  ProtectInline(s, j + 1, done \o placeholder,
                          Append(prot, [placeholder |-> placeholder, original |-> match]))
             ELSE ProtectInline(s, i + 1, done \o <<CharAt(s, i)>>, prot)

\* STEP 1, second replace: /\$\$([^$]+)\$\$/g with the callback that returns
\* __MATH_BLOCK_${protectedMath.length}__.
RECURSIVE ProtectBlock(_, _, _, _)
ProtectBlock(s, i, done, prot) ==
    IF i >= Len(s) THEN [text |-> done, prot |-> prot]
    ELSE LET j == FirstOf(s, {DOLLAR}, i + 2)
         IN  IF CharAt(s, i) = DOLLAR /\ i + 1 < Len(s) /\ CharAt(s, i + 1) = DOLLAR
                  /\ j >= i + 3 /\ j + 1 < Len(s) /\ CharAt(s, j + 1) = DOLLAR
             THEN LET placeholder == BlockPlaceholder(Len(prot))
                      match == Substring(s, i, j + 2)
                  IN  ProtectBlock(s, j + 2, done \o placeholder,
                          Append(prot, [placeholder |-> placeholder, original |-> match]))
             ELSE ProtectBlock(s, i + 1, done \o <<CharAt(s, i)>>, prot)

\* STEP 1 as a whole: the inline pattern first, the block pattern on its result
ProtectMath(s) ==
    LET inl == ProtectInline(s, 0, <<>>, <<>>)
    IN  ProtectBlock(inl.text, 0, <<>>, inl.prot)

\* NextCommand for the pattern /\\([a-zA-Z]*)/g, a star for the plus: any
\* backslash starts a command token.
RECURSIVE NextCommandAnyBackslash(_, _)
NextCommandAnyBackslash(s, from) ==
    IF from >= Len(s) THEN -1
    ELSE IF CharAt(s, from) = BS THEN from
    ELSE NextCommandAnyBackslash(s, from + 1)

\* latexPattern = /\\([a-zA-Z]+)/g: offset of the next command token at or
\* after lastIndex, or -1
RECURSIVE NextCommand(_, _)
NextCommand(s, from) ==
    IF from + 2 > Len(s) THEN -1
    ELSE IF CharAt(s, from) = BS /\ CharAt(s, from + 1) \in Letters THEN from
    ELSE NextCommand(s, from + 1)

\* offset just past the run of letters that starts at i
RECURSIVE LetterRunEnd(_, _)
LetterRunEnd(s, i) ==
    IF i < Len(s) /\ CharAt(s, i) \in Letters THEN LetterRunEnd(s, i + 1) ELSE i

\* /\\[a-zA-Z]/.test(s)
HasCommandStart(s) == \E i \in 1..(Len(s) - 1) : s[i] = BS /\ s[i + 1] \in Letters

\* the inner while of a balanced group: end is just past the opening bracket
RECURSIVE SkipGroup(_, _, _, _, _)
SkipGroup(s, end, depth, open, close) ==
    IF end < Len(s) /\ depth > 0
    THEN SkipGroup(s, end + 1,
                   IF CharAt(s, end) = open THEN depth + 1
                   ELSE IF CharAt(s, end) = close THEN depth - 1
                   ELSE depth,
                   open, close)
    ELSE end

\* [\s+\-*/=<>...,;:.\d] of line 149 and [+\-*/=<>...,;:().] of line 157.
\* The six non-ASCII operators of both classes (less-or-equal, greater-or-
\* equal, not-equal, plus-minus, times, division sign) cannot be written in
\* a string of this language; no text of the model holds one.
Operators == {"+", "-", "*", "/", "=", "<", ">", ",", ";", ":", "."}
MathChars == Whitespace \cup Operators \cup Digits
ContinueChars == Operators \cup {"(", ")"}

\* The while loop of lines 104-175: from end, the offset where the candidate
\* expression stops.
RECURSIVE ExtendExpression(_, _)
ExtendExpression(s, end) ==
    IF end >= Len(s) THEN end
    ELSE LET char == CharAt(s, end)
             e1 == end + 1
         IN  IF char = "{" THEN ExtendExpression(s, SkipGroup(s, e1, 1, "{", "}"))
             ELSE IF char = "(" THEN ExtendExpression(s, SkipGroup(s, e1, 1, "(", ")"))
             ELSE IF char \in {"^", "_"} THEN
                 IF e1 < Len(s) /\ CharAt(s, e1) = "{"
                 THEN ExtendExpression(s, SkipGroup(s, e1 + 1, 1, "{", "}"))
                 ELSE IF e1 < Len(s) /\ CharAt(s, e1) \in WordChars
                 THEN ExtendExpression(s, e1 + 1)
                 ELSE ExtendExpression(s, e1)
             ELSE IF char \in MathChars THEN
                 IF e1 < Len(s)
                 THEN LET remaining == SubstringFrom(s, e1)
                      IN  IF \/ HasCommandStart(Substring(remaining, 0, 10))
                             \/ char \in Digits
                             \/ remaining[1] \in ContinueChars
                          THEN ExtendExpression(s, e1)
                          ELSE IF Len(remaining) >= 2 /\ remaining[1] \in Letters
                                    /\ remaining[2] \in Whitespace
                          THEN e1
                          ELSE ExtendExpression(s, e1)
                 ELSE ExtendExpression(s, e1)
             ELSE IF char \in Letters \cup Digits THEN ExtendExpression(s, e1)
             ELSE end

\* /\\[a-zA-Z]+[\s\d\(\)\[\]]/.test(s)
GenericShape(s) ==
    \E i \in 0..(Len(s) - 3) :
        /\ CharAt(s, i) = BS
        /\ CharAt(s, i + 1) \in Letters
        /\ LetterRunEnd(s, i + 1) < Len(s)
        /\ CharAt(s, LetterRunEnd(s, i + 1))
              \in Whitespace \cup Digits \cup {"(", ")", "[", "]"}

\* LooksLikeArgument for the class [\(\{\d\s], a brace for the square bracket
LooksLikeBraceArgument(afterCmd) ==
    \E k \in 1..Len(afterCmd) : afterCmd[k] \in {"(", "{"} \cup Digits \cup Whitespace

\* /[\(\[\d\s]/.test(afterCmd)
LooksLikeArgument(afterCmd) ==
    \E k \in 1..Len(afterCmd) : afterCmd[k] \in {"(", "["} \cup Digits \cup Whitespace

\* the overlap test with both comparisons turned round
OverlapsReversed(matches, start, end) ==
    \E k \in 1..Len(matches) : matches[k].start > end /\ matches[k].end < start

\* allMatches.some(m => m.start < end && m.end > start)
Overlaps(matches, start, end) ==
    \E k \in 1..Len(matches) : matches[k].start < end /\ matches[k].end > start

\* before.match(/\$/g) odd, or before includes a placeholder prefix
InsideMathOrAfterPlaceholder(before) ==
    \/ CountDollars(before) % 2 = 1
    \/ Includes(before, ProtectPrefix)
    \/ Includes(before, BlockPrefix)

\* STEP 2: the latexPattern.exec loop; from is latexPattern.lastIndex.
RECURSIVE ScanCommands(_, _, _)
ScanCommands(s, from, matches) ==
    LET start == NextCommand(s, from)
    IN  IF start = -1 THEN matches
        ELSE LET tokenEnd == LetterRunEnd(s, start + 1)
                 cmdName == Substring(s, start, tokenEnd)
                 before == Substring(s, 0, start)
                 isMathCommand == cmdName \in mathCommands
                 afterCmd == Substring(s, tokenEnd, tokenEnd + 2)
                 end == ExtendExpression(s, tokenEnd)
                 expression == Trim(Substring(s, start, end))
                 looksLikeMath == hasLatex(expression) \/ GenericShape(expression)
                 accepted ==
                    /\ ~InsideMathOrAfterPlaceholder(before)
                    /\ (isMathCommand \/ LooksLikeArgument(afterCmd))
                    /\ Len(expression) > 0
                    /\ looksLikeMath
                    /\ ~Overlaps(matches, start, end)
             IN  ScanCommands(s, tokenEnd,
                    IF accepted
                    THEN Append(matches, [start |-> start, end |-> end, text |-> expression])
                    ELSE matches)

\* parenPattern = /([\(\[][^)\]\[\n]*(?:\\[a-zA-Z]+[^)\]\[\n]*)+[\)\]])/g
\* tried at offset i: the offset just past the match, or -1.  The body may
\* hold anything but ")", "]", "[" and newline, so the match closes at the
\* first such character, which must be ")" or "]".
ParenMatchEnd(s, i) ==
    LET j == FirstOf(s, {")", "]", "[", NL}, i + 1)
    IN  IF /\ CharAt(s, i) \in {"(", "["}
           /\ j >= 0
           /\ CharAt(s, j) \in {")", "]"}
           /\ HasCommandStart(Substring(s, i + 1, j))
        THEN j + 1
        ELSE -1

RECURSIVE NextParen(_, _)
NextParen(s, from) ==
    IF from >= Len(s) THEN -1
    ELSE IF ParenMatchEnd(s, from) >= 0 THEN from
    ELSE NextParen(s, from + 1)

\* allMatches.some(m => m.start <= start && m.end >= end)
Contained(matches, start, end) ==
    \E k \in 1..Len(matches) : matches[k].start <= start /\ matches[k].end >= end

\* STEP 3: the parenPattern.exec loop; from is parenPattern.lastIndex.
RECURSIVE ScanBrackets(_, _, _)
ScanBrackets(s, from, matches) ==
    LET start == NextParen(s, from)
    IN  IF start = -1 THEN matches
        ELSE LET end == ParenMatchEnd(s, start)
                 matchText == Substring(s, start, end)
                 before == Substring(s, 0, start)
                 innerContent == Substring(matchText, 1, Len(matchText) - 1)
                 accepted ==
                    /\ hasLatex(matchText)
                    /\ ~InsideMathOrAfterPlaceholder(before)
                    /\ ~Contained(matches, start, end)
             IN  ScanBrackets(s, end,
                    IF accepted
                    THEN Append(matches, [start |-> start, end |-> end, text |-> innerContent])
                    ELSE matches)

\* allMatches.sort((a, b) => b.start - a.start): descending start, stable
RECURSIVE InsertDescending(_, _)
InsertDescending(sorted, m) ==
    IF Len(sorted) = 0 THEN <<m>>
    ELSE IF sorted[1].start >= m.start
         THEN <<sorted[1]>> \o InsertDescending(Tail(sorted), m)
         ELSE <<m>> \o sorted

RECURSIVE SortDescending(_)
SortDescending(matches) ==
    IF Len(matches) = 0 THEN <<>>
    ELSE InsertDescending(SortDescending(SubSeq(matches, 1, Len(matches) - 1)),
                          matches[Len(matches)])

\* one iteration of the STEP 4 loop
WrapMatch(s, m) ==
    LET before == Substring(s, 0, m.start)
        after == SubstringFrom(s, m.end)
    IN  IF EndsWithChar(before, DOLLAR) \/ StartsWithChar(after, DOLLAR)
        THEN s
        ELSE Substring(s, 0, m.start) \o <<DOLLAR>> \o m.text \o <<DOLLAR>>
                \o SubstringFrom(s, m.end)

\* STEP 4: for (const {start, end, text} of allMatches), in sorted order
RECURSIVE ApplyMatches(_, _)
ApplyMatches(s, sorted) ==
    IF Len(sorted) = 0 THEN s
    ELSE ApplyMatches(WrapMatch(s, sorted[1]), Tail(sorted))

\* processed.replace(placeholder, original): the first occurrence only, and
\* original is read as a replacement template.
RestoreOne(s, p) ==
    LET i == IndexOf(s, p.placeholder)
    IN  IF i = -1 THEN s
        ELSE LET pre == Substring(s, 0, i)
                 post == SubstringFrom(s, i + Len(p.placeholder))
             IN  pre \o GetSubstitution(p.original, p.placeholder, pre, post, <<>>) \o post

\* STEP 5: protectedMath.forEach(...)
RECURSIVE RestoreMath(_, _)
RestoreMath(s, prot) ==
    IF Len(prot) = 0 THEN s
    ELSE RestoreMath(RestoreOne(s, prot[1]), Tail(prot))

\* preprocessMath as one function
preprocessMath(content) ==
    IF Len(content) = 0 \/ ~hasLatex(content) THEN content
    ELSE LET p == ProtectMath(content)
             cmds == ScanCommands(p.text, 0, <<>>)
             all == ScanBrackets(p.text, 0, cmds)
         IN  RestoreMath(ApplyMatches(p.text, SortDescending(all)), p.prot)

\* MessageCard lines 252-253
normalize(t) == preprocessMath(normalizeMathSyntax(t))

\* ------------------------------------------------------------------ inputs
\* The characters of the exhaustively enumerated texts: the backslash, the
\* dollar, round and square brackets, one letter ("\d" is a recognized
\* command, "\dd" is not), a space, a newline and the apostrophe.
Alphabet == {BS, DOLLAR, "(", ")", "[", "]", "d", " ", NL, "'"}

BoundedTexts == UNION {[1..n -> Alphabet] : n \in 0..MaxLen}

\* The texts of the specification's testable properties, and a few more of
\* the same kinds.
\* "Compute \sin(x) now"
ExSingleWrap ==
    <<"C", "o", "m", "p", "u", "t", "e", " ", "\\", "s", "i", "n", "(", "x", ")", " ", "n",
      "o", "w">>

\* "$\sin(x)$"
ExWrapped ==
    <<"$", "\\", "s", "i", "n", "(", "x", ")", "$">>

\* "\(\frac{1}{2}\)"
ExBracketInline ==
    <<"\\", "(", "\\", "f", "r", "a", "c", "{", "1", "}", "{", "2", "}", "\\", ")">>

\* "\[x^2 + y^2 = z^2\]"
ExBracketBlock ==
    <<"\\", "[", "x", "^", "2", " ", "+", " ", "y", "^", "2", " ", "=", " ", "z", "^", "2",
      "\\", "]">>

\* "\frac{1"
ExTruncated ==
    <<"\\", "f", "r", "a", "c", "{", "1">>

\* "(\cos(6x))"
ExOverlap ==
    <<"(", "\\", "c", "o", "s", "(", "6", "x", ")", ")">>

\* "\\sin(x)", the backslash doubled
ExDoubled ==
    <<"\\", "\\", "s", "i", "n", "(", "x", ")">>

\* "\sin(x)"
ExBare ==
    <<"\\", "s", "i", "n", "(", "x", ")">>

\* a block span over two lines: "$$\pi", newline, "r^2$$"
ExBlockSpan ==
    <<"$", "$", "\\", "p", "i", "\n", "r", "^", "2", "$", "$">>

\* "\('\pi\)": the content starts with an apostrophe
ExQuoteInline ==
    <<"\\", "(", "'", "\\", "p", "i", "\\", ")">>

\* "x \, y": the spacing command, a backslash not followed by a letter
ExThinSpace ==
    <<"x", " ", "\\", ",", " ", "y">>

\* "__MATH_PROTECT_0__ $x$": a text that spells a placeholder itself
ExPlaceholderText ==
    <<"_", "_", "M", "A", "T", "H", "_", "P", "R", "O", "T", "E", "C", "T", "_", "0", "_",
      "_", " ", "$", "x", "$">>

\* "\pi $x$": a recognized command, then a span that is already delimited
ExBeforeSpan ==
    <<"\\", "p", "i", " ", "$", "x", "$">>

\* "$x$ \pi": a span that is already delimited, then a recognized command
ExAfterSpan ==
    <<"$", "x", "$", " ", "\\", "p", "i">>

\* "__MATH_PROTECT_0__ $\pi$": a text that spells the first placeholder and
\* then holds a delimited span
ExPlaceholderCollision ==
    <<"_", "_", "M", "A", "T", "H", "_", "P", "R", "O", "T", "E", "C", "T", "_", "0", "_",
      "_", " ", "$", "\\", "p", "i", "$">>

\* "\bar{\pi}": a command that is not in mathCommands, with a braced argument
ExBraceArgument ==
    <<"\\", "b", "a", "r", "{", "\\", "p", "i", "}">>

\* "\pi is odd": a recognized command and prose words after it
ExProseAfter ==
    <<"\\", "p", "i", " ", "i", "s", " ", "o", "d", "d">>

\* "\sin($x)": a dangling "$" inside a parenthesized argument
ExDanglingDollar ==
    <<"\\", "s", "i", "n", "(", "$", "x", ")">>

\* "\frac{\pi}{2}": a command inside the argument of another
ExNested ==
    <<"\\", "f", "r", "a", "c", "{", "\\", "p", "i", "}", "{", "2", "}">>

\* three backslashes and two spaces
ExBackslashRun ==
    <<"\\", "\\", "\\", " ", " ">>

\* "\foo(x)": a command that is not in mathCommands and holds none of them
ExUnrecognized ==
    <<"\\", "f", "o", "o", "(", "x", ")">>

Examples ==
    {ExSingleWrap, ExWrapped, ExBracketInline, ExBracketBlock, ExTruncated, ExOverlap,
     ExDoubled, ExBare, ExBlockSpan, ExQuoteInline, ExThinSpace, ExPlaceholderText,
     ExBeforeSpan, ExAfterSpan, ExPlaceholderCollision, ExBraceArgument,
     ExProseAfter, ExDanglingDollar, ExNested, ExBackslashRun, ExUnrecognized}
Inputs == BoundedTexts \cup Examples

\* ----------------------------------------------------------- state machine
\* raw            the text first given to MessageCard as content
\* pass           1 for the first normalization, 2 for the one of its output
\* text           the input of the current pass
\* normalized     what normalizeMathSyntax returned in the current pass
\* processed      the working string (processed) of preprocessMath
\* protectedMath  the array protectedMath
\* allMatches     the array allMatches (sorted once STEP 4 has run)
\* prev           the output of the previous pass
\* pc             the next step of the pipeline
Init ==
    /\ raw \in Inputs
    /\ pass = 1
    /\ text = raw
    /\ normalized = <<>>
    /\ processed = raw
    /\ protectedMath = <<>>
    /\ allMatches = <<>>
    /\ prev = <<>>
    /\ pc = "normalize"

\* line 252: const normalizedContent = normalizeMathSyntax(content)
Normalize ==
    /\ pc = "normalize"
    /\ normalized' = normalizeMathSyntax(text)
    /\ processed' = normalizeMathSyntax(text)
    /\ pc' = "preprocess"
    /\ UNCHANGED <<raw, pass, text, protectedMath, allMatches, prev>>

\* lines 38 and 51-53: preprocessMath returns its argument as it is
ReturnUnchanged ==
    /\ pc = "preprocess"
    /\ Len(processed) = 0 \/ ~hasLatex(processed)
    /\ pc' = "done"
    /\ UNCHANGED <<raw, pass, text, normalized, processed, protectedMath, allMatches, prev>>

\* lines 57-68, STEP 1: protect already-wrapped math
Protect ==
    /\ pc = "preprocess"
    /\ Len(processed) > 0 /\ hasLatex(processed)
    /\ processed' = ProtectMath(processed).text
    /\ protectedMath' = ProtectMath(processed).prot
    /\ pc' = "scan"
    /\ UNCHANGED <<raw, pass, text, normalized, allMatches, prev>>

\* CommandScan with allMatches declared outside the function and never
\* emptied: the scan appends to the list the last call left.
CommandScanSharedList ==
    /\ pc = "scan"
    /\ allMatches' = ScanCommands(processed, 0, allMatches)
    /\ pc' = "brackets"
    /\ UNCHANGED <<raw, pass, text, normalized, processed, protectedMath, prev>>

\* lines 70-191, STEP 2: the command scan
CommandScan ==
    /\ pc = "scan"
    /\ allMatches' = ScanCommands(processed, 0, <<>>)
    /\ pc' = "brackets"
    /\ UNCHANGED <<raw, pass, text, normalized, processed, protectedMath, prev>>

\* the bracket scan with a parenPattern that has lost its g flag: exec starts
\* at offset 0 on every call, so the loop sees the first match again and
\* again: the stage returns only when the text holds no match at all
BracketScanNoGlobalFlag ==
    /\ pc = "brackets"
    /\ pc' = IF NextParen(processed, 0) = -1 THEN "apply" ELSE "brackets"
    /\ UNCHANGED <<raw, pass, text, normalized, processed, protectedMath, allMatches, prev>>

\* lines 193-219, STEP 3: the bracket scan
BracketScan ==
    /\ pc = "brackets"
    /\ allMatches' = ScanBrackets(processed, 0, allMatches)
    /\ pc' = "apply"
    /\ UNCHANGED <<raw, pass, text, normalized, processed, protectedMath, prev>>

\* lines 221-235, STEP 4: sort, then wrap from the end to the start
Apply ==
    /\ pc = "apply"
    /\ allMatches' = SortDescending(allMatches)
    /\ processed' = ApplyMatches(processed, SortDescending(allMatches))
    /\ pc' = "restore"
    /\ UNCHANGED <<raw, pass, text, normalized, protectedMath, prev>>

\* lines 237-242, STEP 5: restore protected math and return
Restore ==
    /\ pc = "restore"
    /\ processed' = RestoreMath(processed, protectedMath)
    /\ pc' = "done"
    /\ UNCHANGED <<raw, pass, text, normalized, protectedMath, allMatches, prev>>

\* The output is given to MessageCard as content once more: the second
\* application of normalize(normalize(t)).  What the first call left in its
\* arrays stays where it is: the second call reads none of it, as lines 58
\* and 71 create protectedMath and allMatches anew and lines 76 and 198
\* start both patterns at offset 0.
Rerender ==
    /\ pc = "done"
    /\ pass = 1
    /\ pass' = pass + 1
    /\ text' = processed
    /\ prev' = processed
    /\ normalized' = <<>>
    /\ pc' = "normalize"
    /\ UNCHANGED <<raw, processed, protectedMath, allMatches>>

Next ==
    \/ Normalize
    \/ ReturnUnchanged
    \/ Protect
    \/ CommandScan
    \/ BracketScan
    \/ Apply
    \/ Restore
    \/ Rerender

Spec == Init /\ [][Next]_vars

\* the steps of one call of normalize
Pipeline ==
    \/ Normalize
    \/ ReturnUnchanged
    \/ Protect
    \/ CommandScan
    \/ BracketScan
    \/ Apply
    \/ Restore

\* The texts of the liveness specification: the short ones, and one text for
\* each kind of loop: "(\d)" for the bracket scan, "\d()" for a balanced
\* group of the extension, "$x$ \pi" for the restore loop.
LiveTexts ==
    {t \in BoundedTexts : Len(t) <= MaxLen - 2}
        \cup {<<"(", BS, "d", ")">>, <<BS, "d", "(", ")">>, ExAfterSpan}

LiveInit == Init /\ raw \in LiveTexts

\* normalize is synchronous code: once called, each stage runs as soon as the
\* stage before it has returned.  A further render is up to the caller and
\* is not forced.
LiveSpec == LiveInit /\ [][Next]_vars /\ WF_vars(Pipeline)

TypeOK ==
    /\ pass \in {1, 2}
    /\ pc \in {"normalize", "preprocess", "scan", "brackets", "apply", "restore", "done"}

\* ChatArea keeps its own copy of normalizeMathSyntax, the same four
\* replacements, and applies it to every message it loads or accumulates
\* before the message is given to MessageCard as content.
ChatAreaNormalizeMathSyntax(t) == normalizeMathSyntax(t)

\* ------------------------------------------------------------------ claims
NoChar(s, c) == \A i \in 1..Len(s) : s[i] # c

RECURSIVE StripDollars(_)
StripDollars(s) ==
    IF Len(s) = 0 THEN <<>>
    ELSE (IF s[1] = DOLLAR THEN <<>> ELSE <<s[1]>>) \o StripDollars(Tail(s))

\* C1: idempotence of the whole pipeline: normalizing the output of
\* normalize once more returns that output unchanged.
C1_Idempotent == (pc = "done" /\ pass = 2) => processed = prev

\* "$c$" with c non-empty, without "$" and without newline
IsInlineSpan(t) ==
    /\ Len(t) >= 3
    /\ t[1] = DOLLAR /\ t[Len(t)] = DOLLAR
    /\ \A i \in 2..(Len(t) - 1) : t[i] \notin {DOLLAR, NL}

\* "$$c$$" with c non-empty and without "$"
IsBlockSpan(t) ==
    /\ Len(t) >= 5
    /\ t[1] = DOLLAR /\ t[2] = DOLLAR
    /\ t[Len(t) - 1] = DOLLAR /\ t[Len(t)] = DOLLAR
    /\ \A i \in 3..(Len(t) - 2) : t[i] # DOLLAR

\* C2: no double-wrap: a text that is one canonically delimited span, inline
\* or block, is returned unchanged by normalize.
C2_NoDoubleWrap ==
    (pc = "done" /\ (IsInlineSpan(text) \/ IsBlockSpan(text))) => processed = text

\* C3: lossless restoration: every span that STEP 1 recorded is found in
\* the final output as exactly the characters that were captured.
C3_LosslessRestoration ==
    (pc = "done" /\ Len(normalized) > 0 /\ hasLatex(normalized)) =>
        \A k \in 1..Len(protectedMath) : Includes(processed, protectedMath[k].original)

\* C4: text that is already delimited is never corrupted: every canonical
\* span of the input (as the STEP 1 patterns find them in it) is found
\* character for character in the output of normalize.
C4_DelimitedUntouched ==
    pc = "done" =>
        \A k \in 1..Len(ProtectMath(text).prot) :
            Includes(processed, ProtectMath(text).prot[k].original)

\* "\[" c "\]" with c without backslash and without "$"
IsBracketBlock(t) ==
    /\ Len(t) >= 4
    /\ t[1] = BS /\ t[2] = "["
    /\ t[Len(t) - 1] = BS /\ t[Len(t)] = "]"
    /\ \A i \in 3..(Len(t) - 2) : t[i] \notin {BS, DOLLAR}

\* C5: block conversion: normalize of "\[" c "\]", c without backslash and
\* "$", is "$$" c "$$".
C5_BlockConversion ==
    (pc = "done" /\ IsBracketBlock(text)) =>
        processed = <<DOLLAR, DOLLAR>> \o Substring(text, 2, Len(text) - 2)
                        \o <<DOLLAR, DOLLAR>>

\* "\(" c "\)" with c without "\)", without "$" and without newline
IsBracketInline(t) ==
    /\ Len(t) >= 4
    /\ t[1] = BS /\ t[2] = "("
    /\ t[Len(t) - 1] = BS /\ t[Len(t)] = ")"
    /\ \A i \in 3..(Len(t) - 2) : t[i] \notin {DOLLAR, NL}
    /\ \A i \in 3..(Len(t) - 3) : ~(t[i] = BS /\ t[i + 1] = ")")

\* C6: bracket-style inline conversion: normalize of "\(" c "\)", c without
\* "\)", "$" and newline, is exactly "$" c "$".
C6_InlineConversion ==
    (pc = "done" /\ IsBracketInline(text)) =>
        processed = <<DOLLAR>> \o Substring(text, 2, Len(text) - 2) \o <<DOLLAR>>

\* t is prose, then at offsets [i, j) a recognized command with one
\* parenthesized argument of letters and digits, then prose again
IsSingleWrapCase(t, i, j) ==
    /\ 0 < i /\ i + 1 < j /\ j < Len(t)
    /\ \A k \in 0..(i - 1) : CharAt(t, k) \in Letters \cup {" "}
    /\ CharAt(t, i - 1) = " "
    /\ CharAt(t, i) = BS
    /\ LET tokenEnd == LetterRunEnd(t, i + 1)
       IN  /\ Substring(t, i, tokenEnd) \in mathCommands
           /\ tokenEnd + 1 < j
           /\ CharAt(t, tokenEnd) = "("
           /\ CharAt(t, j - 1) = ")"
           /\ \A k \in (tokenEnd + 1)..(j - 2) : CharAt(t, k) \in Letters \cup Digits
    /\ CharAt(t, j) = " "
    /\ \A k \in j..(Len(t) - 1) : CharAt(t, k) \in Letters \cup {" "}

\* C7: single wrap: prose, one recognized command with a parenthesized
\* argument, prose: the output is the input with one "$" directly before the
\* command and one "$" directly after the closing parenthesis.
C7_SingleWrap ==
    pc = "done" =>
        \A i, j \in 0..Len(text) :
            IsSingleWrapCase(text, i, j) =>
                processed = Substring(text, 0, i) \o <<DOLLAR>> \o Substring(text, i, j)
                                \o <<DOLLAR>> \o SubstringFrom(text, j)

\* "(" command "(" argument ")" ")": a bracketed run whose content is a
\* recognized command with its own parenthesized argument
IsBracketedCommand(t) ==
    /\ Len(t) >= 6
    /\ t[1] = "(" /\ t[2] = BS
    /\ t[Len(t) - 1] = ")" /\ t[Len(t)] = ")"
    /\ LET tokenEnd == LetterRunEnd(t, 2)
       IN  /\ Substring(t, 1, tokenEnd) \in mathCommands
           /\ tokenEnd <= Len(t) - 3
           /\ CharAt(t, tokenEnd) = "("
           /\ \A k \in (tokenEnd + 1)..(Len(t) - 3) : CharAt(t, k) \in Letters \cup Digits

\* C8: overlap collapse: an expression matched by both scanners comes out
\* with exactly one pair of "$", and without them the text is the input.
C8_OverlapCollapse ==
    (pc = "done" /\ IsBracketedCommand(text)) =>
        (CountDollars(processed) = 2 /\ StripDollars(processed) = text)

\* no command token and no "$"
IsPlainText(t) == ~HasCommandStart(t) /\ NoChar(t, DOLLAR)

\* no backslash is directly followed by a backslash or by white space, no
\* "\(" has a "\)" after it and no "\[" has a "\]" after it
NoEscapeToRewrite(t) ==
    /\ \A i \in 1..(Len(t) - 1) : ~(t[i] = BS /\ t[i + 1] \in {BS} \cup Whitespace)
    /\ \A i \in 1..(Len(t) - 3) : \A j \in (i + 2)..(Len(t) - 1) :
          /\ ~(t[i] = BS /\ t[i + 1] = "(" /\ t[j] = BS /\ t[j + 1] = ")")
          /\ ~(t[i] = BS /\ t[i + 1] = "[" /\ t[j] = BS /\ t[j + 1] = "]")

\* C9 as stated: no-op on plain text: a text without command token and
\* without "$" is returned unchanged, whatever other backslashes it has.
C9_NoOpOnPlainText == (pc = "done" /\ IsPlainText(text)) => processed = text

\* C9 as amended: no-op on plain text: a text without command token and
\* without "$", in which no backslash is followed by a backslash or white
\* space and no "\(" ... "\)" or "\[" ... "\]" pair occurs, is returned
\* unchanged.
C9_NoOpOnPlainTextAmended ==
    (pc = "done" /\ IsPlainText(text) /\ NoEscapeToRewrite(text)) => processed = text

\* A plain text with a backslash went through all of preprocessMath.
C9_Witness ==
    /\ pc = "done" /\ pass = 1
    /\ IsPlainText(text) /\ NoEscapeToRewrite(text)
    /\ ~NoChar(text, BS)
    /\ hasLatex(text)

\* C10: a text without any backslash is returned unchanged by the Escape
\* Normalizer and by the whole pipeline; no later step touches it.
C10_NoBackslashUnchanged ==
    (pc # "normalize" /\ NoChar(text, BS)) => (normalized = text /\ processed = text)

\* A text without backslash that holds a "$...$" span and brackets is done.
C10_Witness ==
    /\ pc = "done" /\ pass = 1
    /\ NoChar(text, BS)
    /\ Len(ProtectMath(text).prot) > 0
    /\ \E i \in 1..Len(text) : text[i] \in {"(", ")", "[", "]"}

\* t with every backslash written twice
RECURSIVE DoubleBackslashes(_)
DoubleBackslashes(t) ==
    IF Len(t) = 0 THEN <<>>
    ELSE (IF t[1] = BS THEN <<BS, BS>> ELSE <<t[1]>>) \o DoubleBackslashes(Tail(t))

NoAdjacentBackslashes(t) == \A i \in 1..(Len(t) - 1) : ~(t[i] = BS /\ t[i + 1] = BS)

\* C11: escape collapse: for a text without two adjacent backslashes,
\* normalize of the text with every backslash doubled returns what normalize
\* of the text itself returns.
C11_EscapeCollapse ==
    (pc = "done" /\ NoAdjacentBackslashes(text)) =>
        normalize(DoubleBackslashes(text)) = processed

\* A text with two separate backslashes, one of them starting a recognized
\* command, went through the whole pipeline.
C11_Witness ==
    /\ pc = "done" /\ pass = 1
    /\ NoAdjacentBackslashes(text)
    /\ Len(DoubleBackslashes(text)) >= Len(text) + 2
    /\ hasLatex(text)
    /\ processed # text

\* the characters of a occur in b in the same order
RECURSIVE IsSubsequence(_, _)
IsSubsequence(a, b) ==
    IF Len(a) = 0 THEN TRUE
    ELSE IF Len(b) = 0 THEN FALSE
    ELSE IF a[1] = b[1] THEN IsSubsequence(Tail(a), Tail(b))
    ELSE IsSubsequence(a, Tail(b))

\* a recognized command at offset 0, an opening brace or parenthesis, and a
\* rest without bracket, backslash or "$": the group is never closed
IsTruncatedGroup(t) ==
    /\ Len(t) >= 3
    /\ t[1] = BS
    /\ LET tokenEnd == LetterRunEnd(t, 1)
       IN  /\ Substring(t, 0, tokenEnd) \in mathCommands
           /\ tokenEnd < Len(t)
           /\ CharAt(t, tokenEnd) \in {"{", "("}
           /\ \A k \in (tokenEnd + 1)..(Len(t) - 1) :
                 CharAt(t, k) \notin {"{", "}", "(", ")", "[", "]", BS, DOLLAR}

\* C12: graceful truncation: no candidate span ends past the end of the
\* text; when a group is unclosed at the end of the input the span ends
\* exactly at the end of the text, and every character of the input is in the
\* output, in the original order.
C12_GracefulTruncation ==
    /\ pc \in {"brackets", "apply"} =>
          \A k \in 1..Len(allMatches) : allMatches[k].end <= Len(processed)
    /\ (pc = "brackets" /\ IsTruncatedGroup(text)) =>
          \E k \in 1..Len(allMatches) : allMatches[k].end = Len(processed)
    /\ (pc = "done" /\ IsTruncatedGroup(text)) => IsSubsequence(text, processed)

\* C13: determinism and statelessness: whatever was processed before, the
\* output of an invocation is the function normalize of its input alone;
\* nothing a previous invocation left behind enters it.
C13_Stateless == pc = "done" => processed = normalize(text)

\* The second invocation ran all of preprocessMath after a first one that
\* changed its text and left a match list and protected spans behind.
C13_Witness ==
    /\ pc = "done" /\ pass = 2
    /\ raw # prev
    /\ Len(normalized) > 0 /\ hasLatex(normalized)
    /\ Len(protectedMath) > 0

\* the half-open ranges of two candidates share no offset
Disjoint(a, b) == a.end <= b.start \/ b.end <= a.start

\* C14: pairwise non-overlap: when STEP 4 starts, any two candidates of the
\* list, from the command scan and the bracket scan together, have disjoint
\* ranges [start, end).
C14_PairwiseDisjoint ==
    pc = "apply" =>
        \A k, l \in 1..Len(allMatches) : k # l => Disjoint(allMatches[k], allMatches[l])

\* C15: no nested or double delimiters: STEP 4 puts no "$" next to another
\* "$" (a text that has no two adjacent "$" after the Escape Normalizer has
\* none in the output), as when a recognized command is followed by a space
\* and an existing "$x$" span.
C15_NoDoubleDelimiters ==
    (pc = "done" /\ ~Includes(normalized, <<DOLLAR, DOLLAR>>)) =>
        ~Includes(processed, <<DOLLAR, DOLLAR>>)

\* the candidate m covers a character of an occurrence of the placeholder p
\* in the working string s
CoversPlaceholder(s, m, p) ==
    \E i \in 0..(Len(s) - Len(p)) :
        StartsWithAt(s, p, i) /\ m.start < i + Len(p) /\ m.end > i

\* C16: protected spans are opaque: no candidate of the command scan or
\* the bracket scan covers any character of a placeholder token.
C16_PlaceholdersOpaque ==
    pc \in {"brackets", "apply"} =>
        \A k \in 1..Len(allMatches) : \A j \in 1..Len(protectedMath) :
            ~CoversPlaceholder(processed, allMatches[k], protectedMath[j].placeholder)

\* how many times p occurs in s
Occurrences(s, p) == Cardinality({i \in 0..(Len(s) - Len(p)) : StartsWithAt(s, p, i)})

\* C17: exactly-once restoration: when STEP 5 runs, every placeholder of
\* STEP 1 occurs exactly once in the working string, and the text STEP 5
\* returns holds none of them.
C17_RestoredExactlyOnce ==
    pc = "restore" =>
        \A j \in 1..Len(protectedMath) :
            /\ Occurrences(processed, protectedMath[j].placeholder) = 1
            /\ ~Includes(RestoreMath(processed, protectedMath), protectedMath[j].placeholder)

\* C18: placeholder tokens cannot collide with input content: a placeholder
\* that STEP 1 generates does not occur in the text it is substituted into.
C18_NoPlaceholderCollision ==
    pc = "scan" =>
        \A j \in 1..Len(protectedMath) : ~Includes(normalized, protectedMath[j].placeholder)

\* a command token starts at offset i of s
IsTokenAt(s, i) == i + 1 < Len(s) /\ CharAt(s, i) = BS /\ CharAt(s, i + 1) \in Letters

\* the name of the command token at offset i, with its backslash
TokenAt(s, i) == Substring(s, i, LetterRunEnd(s, i + 1))

\* no candidate that starts before offset i reaches over it
NotCoveredByEarlier(matches, i) ==
    \A k \in 1..Len(matches) : matches[k].start < i => matches[k].end <= i

\* C19: every recognized command token that has an even number of
\* unprotected "$" before it and is not covered by an earlier candidate is
\* accepted by the command scan, also when it comes after a protected span.
C19_RecognizedAccepted ==
    pc = "brackets" =>
        \A i \in 0..(Len(processed) - 2) :
            (/\ IsTokenAt(processed, i)
             /\ TokenAt(processed, i) \in mathCommands
             /\ CountDollars(Substring(processed, 0, i)) % 2 = 0
             /\ NotCoveredByEarlier(allMatches, i))
            => \E k \in 1..Len(allMatches) : allMatches[k].start = i

\* one of the two characters of s that follow offset e is in the set cs
FollowedByOneOf(s, e, cs) ==
    \/ (e < Len(s) /\ CharAt(s, e) \in cs)
    \/ (e + 1 < Len(s) /\ CharAt(s, e + 1) \in cs)

\* The command token at offset i of s is not in mathCommands, the check of
\* lines 83-87 does not skip it, and were it taken as a candidate start its
\* candidate would be recorded: the extended expression passes the test of
\* lines 180-181 and no earlier candidate overlaps it.
IsOpenUnrecognizedToken(s, matches, i) ==
    /\ IsTokenAt(s, i)
    /\ TokenAt(s, i) \notin mathCommands
    /\ ~InsideMathOrAfterPlaceholder(Substring(s, 0, i))
    /\ NotCoveredByEarlier(matches, i)
    /\ LET expression ==
              Trim(Substring(s, i, ExtendExpression(s, LetterRunEnd(s, i + 1))))
       IN  hasLatex(expression) \/ GenericShape(expression)

\* the command token at offset i starts a candidate exactly if one of the two
\* characters after it is in the set cs
StartsCandidateIff(s, matches, i, cs) ==
    (\E k \in 1..Len(matches) : matches[k].start = i)
        <=> FollowedByOneOf(s, LetterRunEnd(s, i + 1), cs)

IsBareLetterBeforeSpace(s, from, p) ==
    /\ from < p /\ p + 1 < Len(s)
    /\ CharAt(s, p) \in Letters
    /\ CharAt(s, p + 1) \in Whitespace
    /\ \A q \in from..p : CharAt(s, q) \notin {"{", "(", BS} \/ q = from
    /\ LetterRunEnd(s, from + 1) <= p

\* C21: stop rule of the forward extension: outside balanced groups, no
\* candidate of the command scan reaches past a bare letter that is directly
\* followed by white space.
C21_StopAtProse ==
    pc = "brackets" =>
        \A k \in 1..Len(allMatches) : \A p \in 0..(Len(processed) - 2) :
            IsBareLetterBeforeSpace(processed, allMatches[k].start, p)
                => allMatches[k].end <= p

\* C22: conservative handling of a dangling delimiter: no candidate of the
\* command scan or of the bracket scan holds a character that an odd number
\* of unprotected "$" precedes in the working text.
C22_DanglingDelimiter ==
    pc = "apply" =>
        \A k \in 1..Len(allMatches) :
            \A p \in allMatches[k].start..(allMatches[k].end - 1) :
                CountDollars(Substring(processed, 0, p)) % 2 = 0

\* the working string at the moment the k-th candidate of the sorted list is
\* applied: the first k - 1 candidates have been handled
WorkingStringAt(s, sorted, k) ==
    ApplyMatches(s, SubSeq(sorted, 1, k - 1))

\* C23: ordering of insertions: the candidates are applied in strictly
\* descending start offset, and when a candidate is applied the characters
\* of the working string in [0, end) are the ones its offsets were computed on.
C23_OffsetsStillValid ==
    pc = "apply" =>
        LET sorted == SortDescending(allMatches)
        IN  /\ \A k \in 1..(Len(sorted) - 1) : sorted[k].start > sorted[k + 1].start
            /\ \A k \in 1..Len(sorted) :
                  Substring(WorkingStringAt(processed, sorted, k), 0, sorted[k].end)
                      = Substring(processed, 0, sorted[k].end)

\* C24: wrapping only inserts: when the text that enters preprocessMath holds
\* no "$" of its own, every "$" of the text after the apply loop was inserted
\* by it, and deleting them gives back the text that entered.
C24_InsertOnly ==
    (pc = "restore" /\ NoChar(normalized, DOLLAR))
        => StripDollars(processed) = normalized

\* C25: within the command scan alone a candidate that overlaps an accepted
\* one is rejected: after the scan the candidates are pairwise disjoint and
\* in strictly increasing start order.
C25_CommandScanDisjoint ==
    pc = "brackets" =>
        \A k \in 1..Len(allMatches) : \A l \in (k + 1)..Len(allMatches) :
            /\ allMatches[k].start < allMatches[l].start
            /\ allMatches[k].end <= allMatches[l].start

\* The command scan has accepted a candidate, and a recognized command token
\* that lies inside it was rejected for the overlap.
C25_Witness ==
    /\ pc = "brackets"
    /\ \E k \in 1..Len(allMatches) : \E j \in 0..(Len(processed) - 1) :
          /\ allMatches[k].start < j /\ j < allMatches[k].end
          /\ NextCommand(processed, j) = j
          /\ Substring(processed, j, LetterRunEnd(processed, j + 1)) \in mathCommands
          /\ \A l \in 1..Len(allMatches) : allMatches[l].start # j

\* the closing bracket of the kind of the opening bracket c
ClosingOf(c) == IF c = "(" THEN ")" ELSE "]"

\* C26: every run accepted by the bracket scan is a whole "(...)" or a whole
\* "[...]": it opens and closes with brackets of the same kind, holds no
\* newline, and holds a command token.
C26_WholeBracketRun ==
    pc = "apply" =>
        \A k \in 1..Len(allMatches) :
            LET m == allMatches[k]
                run == Substring(processed, m.start, m.end)
            IN  CharAt(processed, m.start) \in {"(", "["} =>
                    /\ CharAt(processed, m.end - 1) = ClosingOf(CharAt(processed, m.start))
                    /\ NoChar(run, NL)
                    /\ HasCommandStart(run)

\* C27: the output of normalizeMathSyntax holds no backslash that is directly
\* followed by a white space character.
C27_NoBackslashSpace ==
    pc = "preprocess" =>
        \A i \in 1..(Len(normalized) - 1) :
            ~(normalized[i] = BS /\ normalized[i + 1] \in Whitespace)

C30_DoubleNormalization ==
    pc = "preprocess" =>
        normalizeMathSyntax(ChatAreaNormalizeMathSyntax(text))
            = ChatAreaNormalizeMathSyntax(text)
====
